---- MODULE Spec2Model ----
(***************************************************************************)
(* Compound manager (src/src/core.js): collapse / expand of compound nodes *)
(* with edge projection, position memory and overlap resolution, over a    *)
(* graph store that keeps nodes, edges, positions and per-element data.    *)
(***************************************************************************)
EXTENDS Integers, Sequences, FiniteSets, TLC

(***************************************************************************)
(* The graph: a fixed hierarchy (the nested fixture of the invariant tests *)
(* one level deeper, with a second child), two top-level nodes, and        *)
(* original edges chosen at start among CandidateEdges.                    *)
(*                                                                         *)
(*     gp                  x        c2:1                                   *)
(*     `- p                                                                *)
(*        |- q                                                             *)
(*        |  `- c1                                                         *)
(*        `- c2                                                            *)
(***************************************************************************)
NoNode == ""

\* cy.nodes(), in insertion order
NodeOrder == <<"gp", "p", "q", "c1", "c2", "x", "c2:1">>

Nodes == {NodeOrder[i] : i \in 1..Len(NodeOrder)}

\* node.parent(): NoNode for a top-level node (parent.empty())
ParentOf(n) ==
  CASE n = "p" -> "gp"
    [] n \in {"q", "c2"} -> "p"
    [] n = "c1" -> "q"
    [] OTHER -> NoNode

\* node.isParent()
IsParent(n) == \E m \in Nodes : ParentOf(m) = n

\* node.ancestors()
RECURSIVE Ancestors(_)
Ancestors(n) ==
  IF ParentOf(n) = NoNode THEN {} ELSE {ParentOf(n)} \cup Ancestors(ParentOf(n))

\* node.children()
Children(n) == SelectSeq(NodeOrder, LAMBDA m : ParentOf(m) = n)

\* node.descendants()
Descendants(n) == SelectSeq(NodeOrder, LAMBDA m : n \in Ancestors(m))

Range(s) == {s[i] : i \in 1..Len(s)}

\* The parts of an id between its ':' characters, as String.prototype.split(':')
\* returns them.
Segments(id) == IF id = "c2:1" THEN <<"c2", "1">> ELSE <<id>>

\* The original edges a graph may hold: [id, source, target, isProjection]
Edge(i, s, t) == [id |-> i, source |-> s, target |-> t, isProjection |-> FALSE]

CandidateEdges ==
  << Edge("e1", "c1", "x"),      \* child -> external
     Edge("e2", "c2", "x"),      \* another child -> same external
     Edge("e3", "c1", "c2"),     \* inside p, across the boundary of q
     Edge("e4", "x", "c1"),      \* external -> child
     Edge("e5", "c1", "c2:1"),   \* to a node whose id holds a ':'
     Edge("e6", "q", "x"),       \* attached to a compound itself
     Edge("e7", "p", "p"),       \* loop on a compound
     Edge("e8", "x", "c2:1") >>  \* touches no compound

\* at most this many original edges in the graph
MaxEdges == 2


\* at most this many position writes from outside the engine (drag, layout)
MaxMoves == 1

(***************************************************************************)
(* State.  The graph store: cyEdges (the edges of cy, in insertion order), *)
(* position, dataHidden (the elements whose data('_hidden') is true).  The *)
(* engine state of getState(cy): collapsedIds, hiddenElementsMap,          *)
(* savedPositionsMap, projectionEdgesMap, hiddenIds.  History: last is the *)
(* call made last with its result and the notifications it emitted, snap   *)
(* the graph as it was before the collapse that a collapse/expand pair     *)
(* started with, moves the number of outside position writes and overlap   *)
(* resolutions so far.  opts is the options object the api was made with,  *)
(* animations the position animations started and not yet finished.        *)
(***************************************************************************)
VARIABLES cyEdges, position, dataHidden,
          collapsedIds, hiddenElementsMap, savedPositionsMap,
          projectionEdgesMap, hiddenIds,
          opts, animations, autoLayout, timeoutId, timers, layouts, window,
          last, snap, moves

engine == <<collapsedIds, hiddenElementsMap, savedPositionsMap,
            projectionEdgesMap, hiddenIds>>
graph == <<cyEdges, position, dataHidden>>
vars == <<cyEdges, position, dataHidden,
          collapsedIds, hiddenElementsMap, savedPositionsMap,
          projectionEdgesMap, hiddenIds, opts, animations,
          autoLayout, timeoutId, timers, layouts, window, last, snap,
          moves>>

\* createCore's layout scheduling: the autoLayout flag, the timer of the one
\* debounced layout function, the local layouts that have not stopped yet,
\* and window: the nodes the debounced function was called with since the
\* timer was last idle and those it then ran the layout for
scheduling == <<autoLayout, timeoutId, timers, layouts, window>>

\* no timer is set
NoTimer == [pending |-> FALSE]

NoWindow == [triggers |-> {}, invoked |-> <<>>, last |-> NoNode]

\* the scheduling state of a new api
NewScheduling ==
  /\ autoLayout = opts.autoLayout
  /\ timeoutId = NoTimer
  /\ timers = {}
  /\ layouts = <<>>
  /\ window = NoWindow

\* setTimeout returns a handle no timer set before has: one that differs
\* from the handles of the timers waiting and from the one in timeoutId
FreshTimer ==
  CHOOSE k \in 1..(Cardinality(timers) + 2) :
    /\ \A t \in timers : t.id # k
    /\ timeoutId.pending => timeoutId.id # k

\* clearTimeout(timeoutId): the timer with this handle will not fire
clearTimeout(waiting, handle) == {t \in waiting : t.id # handle.id}

\* (a variant of the debounced function without clearTimeout)
debouncedLayoutNoClear(n) ==
  /\ timers' = timers \cup {[id |-> FreshTimer, node |-> n]}
  /\ timeoutId' = [pending |-> TRUE, id |-> FreshTimer]
  /\ window' = IF timeoutId.pending
               THEN [window EXCEPT !.triggers = @ \cup {n}, !.last = n]
               ELSE [triggers |-> {n}, invoked |-> <<>>, last |-> n]

\* debouncedLayout(node): clears the timer that timeoutId names, if any, and
\* sets a new one whose callback holds this call's argument; window.last is
\* the argument of the latest call
debouncedLayout(n) ==
  /\ timers' = (IF timeoutId.pending THEN clearTimeout(timers, timeoutId)
                ELSE timers)
               \cup {[id |-> FreshTimer, node |-> n]}
  /\ timeoutId' = [pending |-> TRUE, id |-> FreshTimer]
  /\ window' = IF timeoutId.pending
               THEN [window EXCEPT !.triggers = @ \cup {n}, !.last = n]
               ELSE [triggers |-> {n}, invoked |-> <<>>, last |-> n]

\* The state the functions of core.js read and write, as one value; emitted
\* collects the notifications of the call in progress.
Cur ==
  [cyEdges |-> cyEdges, position |-> position, dataHidden |-> dataHidden,
   collapsedIds |-> collapsedIds, hiddenElementsMap |-> hiddenElementsMap,
   savedPositionsMap |-> savedPositionsMap,
   projectionEdgesMap |-> projectionEdgesMap, hiddenIds |-> hiddenIds,
   opts |-> opts, animations |-> animations, emitted |-> <<>>]

\* Map.set / Map.delete on a map kept as a function
MapSet(m, k, v) == [i \in DOMAIN m \cup {k} |-> IF i = k THEN v ELSE m[i]]
MapDelete(m, k) == [i \in DOMAIN m \ {k} |-> m[i]]
EmptyMap == [i \in {} |-> 0]

EdgeIds(S) == {S.cyEdges[i].id : i \in 1..Len(S.cyEdges)}
EdgeById(S, id) == CHOOSE e \in Range(S.cyEdges) : e.id = id

\* the elements of cy
Elements(S) == Nodes \cup EdgeIds(S)

\* node.connectedEdges(), in the order of cy.edges()
ConnectedEdges(S, n) ==
  SelectSeq(S.cyEdges, LAMBDA e : e.source = n \/ e.target = n)

(***************************************************************************)
(* Visibility helpers                                                      *)
(***************************************************************************)
hideElement(S, id) ==
  [S EXCEPT !.dataHidden = @ \cup {id}, !.hiddenIds = @ \cup {id}]

showElement(S, id) ==
  [S EXCEPT !.dataHidden = @ \ {id}, !.hiddenIds = @ \ {id}]

isHiddenEle(S, id) == id \in S.hiddenIds \/ id \in S.dataHidden

\* collection.forEach(ele => hideElement(cy, ele))
RECURSIVE hideAll(_, _)
hideAll(S, ids) ==
  IF ids = <<>> THEN S ELSE hideAll(hideElement(S, Head(ids)), Tail(ids))

(***************************************************************************)
(* Position memory                                                         *)
(***************************************************************************)
\* (a variant that records the positions themselves, not the offsets)
saveAbsolutePositions(S, parent, descendants) ==
  LET positions == [c \in Range(descendants) |->
                      [lx |-> S.position[c].x, ly |-> S.position[c].y]]
  IN  [S EXCEPT !.savedPositionsMap = MapSet(@, parent, positions)]

saveLocalPositions(S, parent, descendants) ==
  LET parentPos == S.position[parent]
      positions == [c \in Range(descendants) |->
                      [lx |-> S.position[c].x - parentPos.x,
                       ly |-> S.position[c].y - parentPos.y]]
  IN  [S EXCEPT !.savedPositionsMap = MapSet(@, parent, positions)]

\* (a variant that moves the node alone)
cyPositionAlone(S, n, pos) ==
  [S EXCEPT !.position = [@ EXCEPT ![n] = pos]]

\* node.position(pos): the graph store moves the node and, when it has
\* children, shifts its descendants by the same amount
cyPosition(S, n, pos) ==
  LET dx == pos.x - S.position[n].x
      dy == pos.y - S.position[n].y
  IN  [S EXCEPT !.position =
         [m \in Nodes |->
            IF m = n THEN pos
            ELSE IF n \in Ancestors(m)
            THEN [x |-> @[m].x + dx, y |-> @[m].y + dy]
            ELSE @[m]]]

\* child.animate({ position: newPos, ... }): the animation is started, and
\* the position is written when it finishes
cyAnimate(S, n, pos) ==
  [S EXCEPT !.animations = Append(@, [node |-> n, position |-> pos])]

\* parent.children().forEach(child => ...)
RECURSIVE restoreChildren(_, _, _, _)
restoreChildren(S, children, positions, parentPos) ==
  IF children = <<>> THEN S
  ELSE
    LET child == Head(children)
        newPos == [x |-> parentPos.x + positions[child].lx,
                   y |-> parentPos.y + positions[child].ly]
        S1 == IF child \notin DOMAIN positions THEN S
              ELSE IF S.opts.animate THEN cyAnimate(S, child, newPos)
              ELSE cyPosition(S, child, newPos)
    IN  restoreChildren(S1, Tail(children), positions, parentPos)

\* (a variant that keeps the stored record)
restoreLocalPositionsKeepRecord(S, parent) ==
  IF parent \notin DOMAIN S.savedPositionsMap THEN S
  ELSE restoreChildren(S, Children(parent), S.savedPositionsMap[parent],
                       S.position[parent])

restoreLocalPositions(S, parent) ==
  IF parent \notin DOMAIN S.savedPositionsMap THEN S
  ELSE
    LET positions == S.savedPositionsMap[parent]
        S1 == restoreChildren(S, Children(parent), positions,
                              S.position[parent])
    IN  [S1 EXCEPT !.savedPositionsMap = MapDelete(@, parent)]

(***************************************************************************)
(* Edge projection                                                         *)
(***************************************************************************)
\* the elements of a sequence, each once, in the order of first occurrence
RECURSIVE Uniq(_)
Uniq(s) ==
  IF s = <<>> THEN <<>>
  ELSE LET r == Uniq(SubSeq(s, 1, Len(s) - 1))
           e == s[Len(s)]
       IN  IF e \in Range(r) THEN r ELSE Append(r, e)

\* descendants.forEach(node => node.connectedEdges().forEach(...)) with the
\* seenEdges filter: every edge touching a descendant, once, in visiting order
RECURSIVE VisitedEdges(_, _)
VisitedEdges(S, descendants) ==
  IF descendants = <<>> THEN <<>>
  ELSE Uniq(ConnectedEdges(S, Head(descendants))
            \o VisitedEdges(S, Tail(descendants)))

\* both endpoints in the subtree
IsInternalEdge(edge, descendantIds) ==
  edge.source \in descendantIds /\ edge.target \in descendantIds

\* (a variant that takes every edge touching the subtree for a boundary edge)
IsExternalEdgeTouching(edge, descendantIds) ==
  edge.source \in descendantIds \/ edge.target \in descendantIds

\* exactly one endpoint in the subtree
IsExternalEdge(edge, descendantIds) ==
  (edge.source \in descendantIds) # (edge.target \in descendantIds)

\* the grouping key `out:${targetId}` / `in:${sourceId}`, as the parts that
\* key.split(':') yields; NoKey for an edge the loop skips
NoKey == <<>>

GroupKey(edge, descendantIds) ==
  IF edge.source \in descendantIds /\ edge.target \notin descendantIds
  THEN <<"out">> \o Segments(edge.target)
  ELSE IF edge.source \notin descendantIds /\ edge.target \in descendantIds
  THEN <<"in">> \o Segments(edge.source)
  ELSE NoKey

\* `_proj_${parentId}_${projCounter}`
ProjId(parentId, projCounter) ==
  "_proj_" \o parentId \o "_" \o ToString(projCounter)

\* the projection edge of the group with this key: const [direction,
\* externalId] = key.split(':')
ProjectionEdge(parentId, key, projCounter) ==
  LET direction == key[1]
      externalId == key[2]
  IN  [id |-> ProjId(parentId, projCounter),
       source |-> IF direction = "out" THEN parentId ELSE externalId,
       target |-> IF direction = "out" THEN externalId ELSE parentId,
       isProjection |-> TRUE]

\* cy.add of an edge: the graph store takes it when its id is free and both
\* its endpoints are nodes of the graph, and otherwise adds nothing
cyAdd(S, edge) ==
  IF edge.id \notin Elements(S) /\ edge.source \in Nodes /\ edge.target \in Nodes
  THEN [S EXCEPT !.cyEdges = Append(@, edge)]
  ELSE S

\* cy.remove of an edge: the element goes, with its data
cyRemove(S, id) ==
  [S EXCEPT !.cyEdges = SelectSeq(@, LAMBDA e : e.id # id),
            !.dataHidden = @ \ {id}]

\* groups.forEach(...): one cy.add per key, numbered from 0
RECURSIVE addProjections(_, _, _, _)
addProjections(S, parentId, keys, projCounter) ==
  IF keys = <<>> THEN S
  ELSE addProjections(
         cyAdd(S, ProjectionEdge(parentId, Head(keys), projCounter)),
         parentId, Tail(keys), projCounter + 1)

createProjections(S, parentId, descendants) ==
  LET descendantIds == Range(descendants) \cup {parentId}
      visited == VisitedEdges(S, descendants)
      internalEdges ==
        SelectSeq(visited, LAMBDA e : IsInternalEdge(e, descendantIds))
      externalEdges ==
        SelectSeq(visited, LAMBDA e : IsExternalEdge(e, descendantIds))
      keys == Uniq(SelectSeq([i \in 1..Len(externalEdges) |->
                                GroupKey(externalEdges[i], descendantIds)],
                             LAMBDA key : key # NoKey))
      S1 == hideAll(S, [i \in 1..Len(internalEdges) |-> internalEdges[i].id])
      S2 == addProjections(S1, parentId, keys, 0)
      projIds == [i \in 1..Len(keys) |-> ProjId(parentId, i - 1)]
      originalIds == [i \in 1..Len(externalEdges) |-> externalEdges[i].id]
  IN  [S2 EXCEPT !.projectionEdgesMap =
         MapSet(@, parentId, [projIds |-> projIds, originalIds |-> originalIds])]

\* data.projIds.forEach(projId => ... cy.remove(proj))
RECURSIVE removeAll(_, _)
removeAll(S, ids) ==
  IF ids = <<>> THEN S
  ELSE removeAll(IF Head(ids) \in EdgeIds(S) THEN cyRemove(S, Head(ids)) ELSE S,
                 Tail(ids))

\* variant: the record is cleared and the edges are left in the graph
removeProjectionsRecordOnly(S, parentId) ==
  IF parentId \notin DOMAIN S.projectionEdgesMap THEN S
  ELSE [S EXCEPT !.projectionEdgesMap = MapDelete(@, parentId)]

removeProjections(S, parentId) ==
  IF parentId \notin DOMAIN S.projectionEdgesMap THEN S
  ELSE LET S1 == removeAll(S, S.projectionEdgesMap[parentId].projIds)
       IN  [S1 EXCEPT !.projectionEdgesMap = MapDelete(@, parentId)]

(***************************************************************************)
(* Collapse / expand.  Each returns [S |-> the state after, ok |-> the     *)
(* boolean returned].                                                      *)
(***************************************************************************)
\* cy.emit(name, { node }); seen is what a listener finds in the engine and
\* the graph when it is called
Emit(S, name, node) ==
  [S EXCEPT !.emitted =
     Append(@, [name |-> name, node |-> node,
                seen |-> [collapsedIds |-> S.collapsedIds,
                          hiddenIds |-> S.hiddenIds,
                          dataHidden |-> S.dataHidden,
                          projectionEdgesMap |-> S.projectionEdgesMap,
                          cyEdges |-> S.cyEdges]])]

\* descendants.connectedEdges(), in the order of cy.edges()
DescendantsConnectedEdges(S, descendants) ==
  SelectSeq(S.cyEdges,
            LAMBDA e : e.source \in Range(descendants)
                       \/ e.target \in Range(descendants))

\* variant: the notification is emitted before the node is marked collapsed
collapseNodeEmitFirst(S, nodeId) ==
  LET descendants == Descendants(nodeId)
      S1 == saveLocalPositions(S, nodeId, descendants)
      S2 == hideAll(S1, descendants)
      connected == DescendantsConnectedEdges(S2, descendants)
      S3 == hideAll(S2, [i \in 1..Len(connected) |-> connected[i].id])
      S4 == [S3 EXCEPT !.hiddenElementsMap = MapSet(@, nodeId, descendants)]
      S5 == createProjections(S4, nodeId, descendants)
      S6 == Emit(S5, "compoundmanager.collapse", nodeId)
  IN  [S |-> [S6 EXCEPT !.collapsedIds = @ \cup {nodeId}], ok |-> TRUE]

\* the valid transition of collapse
collapseNode(S, nodeId) ==
  LET descendants == Descendants(nodeId)
      S1 == saveLocalPositions(S, nodeId, descendants)
      S2 == hideAll(S1, descendants)
      connected == DescendantsConnectedEdges(S2, descendants)
      S3 == hideAll(S2, [i \in 1..Len(connected) |-> connected[i].id])
      S4 == [S3 EXCEPT !.hiddenElementsMap = MapSet(@, nodeId, descendants)]
      S5 == createProjections(S4, nodeId, descendants)
      S6 == [S5 EXCEPT !.collapsedIds = @ \cup {nodeId}]
  IN  [S |-> Emit(S6, "compoundmanager.collapse", nodeId), ok |-> TRUE]

\* (a variant without the test for an already collapsed node)
collapseAgain(S, nodeId) ==
  IF ~IsParent(nodeId) THEN [S |-> S, ok |-> FALSE]
  ELSE collapseNode(S, nodeId)

\* (a variant without the test for a node without children)
collapseAnyNode(S, nodeId) ==
  IF nodeId \in S.collapsedIds THEN [S |-> S, ok |-> FALSE]
  ELSE collapseNode(S, nodeId)

collapse(S, nodeId) ==
  IF ~IsParent(nodeId) THEN [S |-> S, ok |-> FALSE]
  ELSE IF nodeId \in S.collapsedIds THEN [S |-> S, ok |-> FALSE]
  ELSE collapseNode(S, nodeId)

\* variant: the edge is shown when one of its endpoints is visible
RECURSIVE showEdgesEither(_, _)
showEdgesEither(S, connected) ==
  IF connected = <<>> THEN S
  ELSE LET edge == Head(connected)
       IN  showEdgesEither(
             IF /\ (~isHiddenEle(S, edge.source) \/ ~isHiddenEle(S, edge.target))
                /\ ~edge.isProjection
             THEN showElement(S, edge.id) ELSE S,
             Tail(connected))

\* ele.connectedEdges().forEach(edge => ...): show the edge when both its
\* endpoints are visible and it is no projection
RECURSIVE showEdges(_, _)
showEdges(S, connected) ==
  IF connected = <<>> THEN S
  ELSE LET edge == Head(connected)
       IN  showEdges(
             IF /\ ~isHiddenEle(S, edge.source)
                /\ ~isHiddenEle(S, edge.target)
                /\ ~edge.isProjection
             THEN showElement(S, edge.id) ELSE S,
             Tail(connected))

\* the test that lets expand show a recorded descendant
MayShow(S, nodeId, id) ==
  \/ ParentOf(id) = NoNode
  \/ ParentOf(id) = nodeId
  \/ ParentOf(id) \notin S.collapsedIds

\* descendantIds.forEach(id => ...)
RECURSIVE showDescendants(_, _, _)
showDescendants(S, nodeId, descendantIds) ==
  IF descendantIds = <<>> THEN S
  ELSE LET id == Head(descendantIds)
           S1 == IF id \in Nodes /\ MayShow(S, nodeId, id)
                 THEN LET shown == showElement(S, id)
                      IN  showEdges(shown, ConnectedEdges(shown, id))
                 ELSE S
       IN  showDescendants(S1, nodeId, Tail(descendantIds))

expand(S, nodeId) ==
  IF nodeId \notin S.collapsedIds THEN [S |-> S, ok |-> FALSE]
  ELSE
    LET descendantIds == IF nodeId \in DOMAIN S.hiddenElementsMap
                         THEN S.hiddenElementsMap[nodeId] ELSE <<>>
        S1 == showDescendants(S, nodeId, descendantIds)
        S2 == removeProjections(S1, nodeId)
        S3 == restoreLocalPositions(S2, nodeId)
        S4 == [S3 EXCEPT !.collapsedIds = @ \ {nodeId},
                         !.hiddenElementsMap = MapDelete(@, nodeId)]
    IN  [S |-> Emit(S4, "compoundmanager.expand", nodeId), ok |-> TRUE]

isCollapsedNode(S, nodeId) == nodeId \in S.collapsedIds

\* api.collapsedNodes()
collapsedNodes(S) == SelectSeq(NodeOrder, LAMBDA n : isCollapsedNode(S, n))

\* api.getProjectedEdges(node): the recorded projection edges still in cy
getProjectedEdges(S, nodeId) ==
  IF nodeId \notin DOMAIN S.projectionEdgesMap THEN <<>>
  ELSE SelectSeq(S.projectionEdgesMap[nodeId].projIds,
                 LAMBDA id : id \in EdgeIds(S))

\* a.ancestors().length
Depth(n) == Cardinality(Ancestors(n))

\* compounds.sort((a, b) => depthB - depthA): a stable sort, deepest first
RECURSIVE InsertByDepth(_, _)
InsertByDepth(sorted, n) ==
  IF sorted = <<>> THEN <<n>>
  ELSE IF Depth(Head(sorted)) >= Depth(n)
  THEN <<Head(sorted)>> \o InsertByDepth(Tail(sorted), n)
  ELSE <<n>> \o sorted

\* (a variant that leaves the compounds in the order of cy.nodes())
KeepOrder(nodes) == nodes

RECURSIVE SortByDepth(_)
SortByDepth(nodes) ==
  IF nodes = <<>> THEN <<>>
  ELSE InsertByDepth(SortByDepth(SubSeq(nodes, 1, Len(nodes) - 1)),
                     nodes[Len(nodes)])

\* compounds.forEach(n => collapse(cy, n, opts))
RECURSIVE collapseEach(_, _)
collapseEach(S, nodes) ==
  IF nodes = <<>> THEN S
  ELSE collapseEach(collapse(S, Head(nodes)).S, Tail(nodes))

\* api.collapseAll()
collapseAll(S) ==
  collapseEach(S, SortByDepth(SelectSeq(NodeOrder, IsParent)))

\* nodes.forEach(n => expand(cy, n, opts))
RECURSIVE expandEach(_, _)
expandEach(S, nodes) ==
  IF nodes = <<>> THEN S
  ELSE expandEach(expand(S, Head(nodes)).S, Tail(nodes))

\* api.expandAll(): the collapsed nodes, in the order of cy.nodes()
expandAll(S) == expandEach(S, collapsedNodes(S))

(***************************************************************************)
(* Overlap resolution.  Coordinates are counted in units of 1/Scale, so    *)
(* that the halvings of separateNodes are exact, as they are on doubles.   *)
(***************************************************************************)
\* the number of units in one pixel
Scale == 1024

\* an option that is not given (undefined, or 0: both falsy)
Absent == 0
DefaultMaxIterations == 50
DefaultOverlapPadding == 10

\* width and height of the nodes, in pixels: three styled leaves, and 1 by 1
\* for the rest, which is what a node measures without a style (headless)
Dimension(n) ==
  IF n \in {"c1", "c2", "x"} THEN [w |-> 32, h |-> 32]
  ELSE [w |-> 1, h |-> 1]

Min(a, b) == IF a < b THEN a ELSE b
Max(a, b) == IF a > b THEN a ELSE b

\* node.boundingBox(): the box of the node's dimensions around its position
boundingBox(S, n) ==
  LET pos == S.position[n]
      halfW == (Dimension(n).w * Scale) \div 2
      halfH == (Dimension(n).h * Scale) \div 2
  IN  [x1 |-> pos.x - halfW, x2 |-> pos.x + halfW,
       y1 |-> pos.y - halfH, y2 |-> pos.y + halfH]

getVisibleNodes(S) == SelectSeq(NodeOrder, LAMBDA n : ~isHiddenEle(S, n))

boxesOverlap(bb1, bb2) ==
  ~(bb1.x2 < bb2.x1 \/ bb1.x1 > bb2.x2 \/ bb1.y2 < bb2.y1 \/ bb1.y1 > bb2.y2)

\* null
NoOverlap == [overlaps |-> FALSE]

\* dx and dy are kept doubled: only their signs are read
calculateOverlap(S, n1, n2) ==
  LET bb1 == boundingBox(S, n1)
      bb2 == boundingBox(S, n2)
  IN  IF ~boxesOverlap(bb1, bb2) THEN NoOverlap
      ELSE [overlaps |-> TRUE,
            overlapX |-> Min(bb1.x2, bb2.x2) - Max(bb1.x1, bb2.x1),
            overlapY |-> Min(bb1.y2, bb2.y2) - Max(bb1.y1, bb2.y1),
            dx |-> (bb1.x1 + bb1.x2) - (bb2.x1 + bb2.x2),
            dy |-> (bb1.y1 + bb1.y2) - (bb2.y1 + bb2.y2)]

separateNodes(S, n1, n2, overlap, padding) ==
  LET horizontal == overlap.overlapX < overlap.overlapY
      moveX == IF horizontal
               THEN (overlap.overlapX \div 2 + padding)
                    * (IF overlap.dx >= 0 THEN 1 ELSE -1)
               ELSE 0
      moveY == IF horizontal THEN 0
               ELSE (overlap.overlapY \div 2 + padding)
                    * (IF overlap.dy >= 0 THEN 1 ELSE -1)
      pos1 == S.position[n1]
      pos2 == S.position[n2]
  IN  [S EXCEPT !.position =
         [@ EXCEPT ![n1] = [x |-> pos1.x + moveX, y |-> pos1.y + moveY],
                   ![n2] = [x |-> pos2.x - moveX, y |-> pos2.y - moveY]]]

\* (a variant that takes the hidden nodes too)
AllLeaves(S) == SelectSeq(NodeOrder, LAMBDA n : ~IsParent(n))

\* getVisibleNodes(cy).filter(n => !n.isParent()).toArray()
VisibleLeaves(S) == SelectSeq(getVisibleNodes(S), LAMBDA n : ~IsParent(n))

\* the pairs (i, j), i < j, of the two nested loops, in the order visited
RECURSIVE LoopPairs(_, _, _)
LoopPairs(i, j, n) ==
  IF i > n THEN <<>>
  ELSE IF j > n THEN LoopPairs(i + 1, i + 2, n)
  ELSE <<<<i, j>>>> \o LoopPairs(i, j + 1, n)

\* one is ancestor of another
Nested(n, m) == m \in Ancestors(n) \/ n \in Ancestors(m)

hasOverlaps(S) ==
  LET nodes == VisibleLeaves(S)
  IN  \E i \in 1..Len(nodes) : \E j \in (i + 1)..Len(nodes) :
        /\ ~Nested(nodes[i], nodes[j])
        /\ calculateOverlap(S, nodes[i], nodes[j]).overlaps

\* the body of one pass: the two nested loops over nodes
RECURSIVE separatePairs(_, _, _, _, _)
separatePairs(S, nodes, pairs, padding, hasOverlap) ==
  IF pairs = <<>> THEN [S |-> S, hasOverlap |-> hasOverlap]
  ELSE
    LET n1 == nodes[Head(pairs)[1]]
        n2 == nodes[Head(pairs)[2]]
        overlap == calculateOverlap(S, n1, n2)
    IN  IF Nested(n1, n2) \/ ~overlap.overlaps
        THEN separatePairs(S, nodes, Tail(pairs), padding, hasOverlap)
        ELSE separatePairs(separateNodes(S, n1, n2, overlap, padding),
                           nodes, Tail(pairs), padding, TRUE)

\* while (hasOverlap && iterations < maxIterations) { ... }
RECURSIVE resolveLoop(_, _, _, _, _)
resolveLoop(S, hasOverlap, iterations, maxIterations, padding) ==
  IF ~(hasOverlap /\ iterations < maxIterations)
  THEN [S |-> S, hasOverlap |-> hasOverlap, iterations |-> iterations]
  ELSE
    LET nodes == VisibleLeaves(S)
        pass == separatePairs(S, nodes, LoopPairs(1, 2, Len(nodes)),
                              padding, FALSE)
    IN  resolveLoop(pass.S, pass.hasOverlap, iterations + 1,
                    maxIterations, padding)

\* opts.maxIterations || 50 and opts.overlapPadding || 10
MaxIterationsOf(o) ==
  IF o.maxIterations = Absent THEN DefaultMaxIterations ELSE o.maxIterations
PaddingOf(o) ==
  IF o.overlapPadding = Absent THEN DefaultOverlapPadding * Scale
  ELSE o.overlapPadding * Scale

\* (a variant that reports failure whenever the passes ran out)
resolveOverlapsNoRecheck(S, o) ==
  LET maxIterations == MaxIterationsOf(o)
      r == resolveLoop(S, TRUE, 0, maxIterations, PaddingOf(o))
  IN  IF r.iterations >= maxIterations
      THEN [S |-> Emit(r.S, "compoundmanager.layoutResetRequired", NoNode),
            ok |-> FALSE, iterations |-> r.iterations]
      ELSE [S |-> r.S, ok |-> TRUE, iterations |-> r.iterations]

\* returns [S, ok |-> the boolean returned, iterations |-> the passes made];
\* the notification carries a message and a reason, and no node
resolveOverlaps(S, o) ==
  LET maxIterations == MaxIterationsOf(o)
      r == resolveLoop(S, TRUE, 0, maxIterations, PaddingOf(o))
  IN  IF r.iterations >= maxIterations /\ hasOverlaps(r.S)
      THEN [S |-> Emit(r.S, "compoundmanager.layoutResetRequired", NoNode),
            ok |-> FALSE, iterations |-> r.iterations]
      ELSE [S |-> r.S, ok |-> TRUE, iterations |-> r.iterations]


(***************************************************************************)
(* Local layout                                                            *)
(***************************************************************************)
\* node.neighborhood().nodes(): the other ends of the node's edges
neighborhood(S, n) ==
  {m \in Nodes \ {n} :
     \E i \in 1..Len(S.cyEdges) :
       {S.cyEdges[i].source, S.cyEdges[i].target} = {n, m}}

\* the node, its visible neighbours and, of a compound, its visible children
affectedNodes(S, n) ==
  {n} \cup {m \in neighborhood(S, n) : ~isHiddenEle(S, m)}
      \cup (IF IsParent(n)
            THEN {c \in Range(Children(n)) : ~isHiddenEle(S, c)}
            ELSE {})

\* runLocalLayout up to layout.run(): with fewer than two affected nodes the
\* overlaps are resolved and the promise is resolved at once; otherwise the
\* positions of the visible nodes outside the affected set are kept for the
\* layoutstop handler
runLocalLayout(S, n, o) ==
  LET affected == affectedNodes(S, n)
      unaffectedNodes ==
        SelectSeq(getVisibleNodes(S), LAMBDA m : m \notin affected)
  IN  IF Cardinality(affected) < 2
      THEN [S |-> resolveOverlaps(S, o).S, running |-> FALSE]
      ELSE [S |-> S, running |-> TRUE,
            layout |->
              [unaffectedNodes |-> unaffectedNodes,
               originalPositions |->
                 [m \in Range(unaffectedNodes) |-> S.position[m]]]]

\* unaffectedNodes.forEach(n => n.position(pos))
RECURSIVE restoreUnaffected(_, _, _)
restoreUnaffected(S, ns, originalPositions) ==
  IF ns = <<>> THEN S
  ELSE restoreUnaffected(cyPosition(S, Head(ns), originalPositions[Head(ns)]),
                         Tail(ns), originalPositions)

\* the layoutstop handler of runLocalLayout
layoutstop(S, layout, o) ==
  resolveOverlaps(
    restoreUnaffected(S, layout.unaffectedNodes, layout.originalPositions),
    o).S

(***************************************************************************)
(* Global layout                                                           *)
(***************************************************************************)
\* eles.edgesWith(others): the edges of the graph between a node of the one
\* collection and a node of the other
edgesWith(S, A, B) ==
  SelectSeq(S.cyEdges,
            LAMBDA e : \/ e.source \in A /\ e.target \in B
                       \/ e.source \in B /\ e.target \in A)

\* (a variant that lays out every node of the graph)
runLayoutAllNodes(S, o) ==
  [eles |-> [nodes |-> NodeOrder,
             edges |-> edgesWith(S, Nodes, Nodes)]]

\* runLayout up to layout.run(): the layout made, with the elements it is
\* given; the promise returned is pending
runLayout(S, o) ==
  LET visibleNodes == getVisibleNodes(S)
  IN  [eles |-> [nodes |-> visibleNodes,
                 edges |-> edgesWith(S, Range(visibleNodes),
                                     Range(visibleNodes))]]

\* the layoutstop handler of runLayout, up to resolve()
runLayoutStopped(S, o) == resolveOverlaps(S, o)

(***************************************************************************)
(* The engine as a state machine: calls of api.collapse(node) and          *)
(* api.expand(node) on single nodes, with auto-layout off (the default),   *)
(* and position writes from outside the engine.                            *)
(***************************************************************************)
\* the subsequences of s with at most k elements
RECURSIVE SubSeqs(_, _)
SubSeqs(s, k) ==
  IF s = <<>> \/ k = 0 THEN {<<>>}
  ELSE SubSeqs(Tail(s), k)
       \cup {<<Head(s)>> \o t : t \in SubSeqs(Tail(s), k - 1)}

\* the positions the nodes are created with
InitialPosition ==
  [n \in Nodes |->
     LET i == CHOOSE j \in 1..Len(NodeOrder) : NodeOrder[j] = n
     IN  [x |-> 10 * i, y |-> 5 * i]]

\* the nodes an outside position write moves: a collapsing compound that is
\* itself a child, a compound below it, and a leaf
MovedNodes == {"p", "q", "c1"}

\* the displacements of an outside position write
Deltas == {[x |-> 3, y |-> -2]}

NoSnap == [phase |-> "none"]
NoCall ==
  [op |-> "none", ok |-> FALSE, emitted |-> <<>>, node |-> NoNode,
   wasCollapsed |-> FALSE, again |-> FALSE, iterations |-> 0]

\* the options of an api made with none given
NoOpts ==
  [maxIterations |-> Absent, overlapPadding |-> Absent, animate |-> FALSE,
   autoLayout |-> FALSE]

\* a call and its outcome: the node when the call succeeded, whether the node
\* was in the collapsed set when the call was made, and again: the call repeats
\* the successful call before it
Call(op, node, r) ==
  [op |-> op, ok |-> r.ok, emitted |-> r.S.emitted,
   node |-> IF r.ok THEN node ELSE NoNode,
   wasCollapsed |-> node \in collapsedIds,
   again |-> last.ok /\ last.op = op /\ last.node = node,
   iterations |-> 0]

\* the variables take the values of S
Install(S) ==
  /\ cyEdges' = S.cyEdges
  /\ position' = S.position
  /\ dataHidden' = S.dataHidden
  /\ collapsedIds' = S.collapsedIds
  /\ hiddenElementsMap' = S.hiddenElementsMap
  /\ savedPositionsMap' = S.savedPositionsMap
  /\ projectionEdgesMap' = S.projectionEdgesMap
  /\ hiddenIds' = S.hiddenIds
  /\ animations' = S.animations

Init ==
  /\ cyEdges \in SubSeqs(CandidateEdges, MaxEdges)
  /\ position = InitialPosition
  /\ dataHidden = {}
  /\ collapsedIds = {}
  /\ hiddenElementsMap = EmptyMap
  /\ savedPositionsMap = EmptyMap
  /\ projectionEdgesMap = EmptyMap
  /\ hiddenIds = {}
  /\ opts = NoOpts
  /\ animations = <<>>
  /\ last = NoCall
  /\ snap = NoSnap
  /\ moves = 0
  /\ NewScheduling

\* (a variant that schedules the layout whatever the autoLayout flag says)
CollapseAlwaysSchedules(n) ==
  LET r == collapse(Cur, n)
  IN  /\ Install(r.S)
      /\ last' = Call("collapse", n, r)
      /\ snap' = NoSnap
      /\ IF r.ok
         THEN debouncedLayout(n)
         ELSE UNCHANGED <<timeoutId, timers, window>>
      /\ UNCHANGED <<moves, opts, autoLayout, layouts>>

\* api.collapse(node)
Collapse(n) ==
  LET r == collapse(Cur, n)
  IN  /\ Install(r.S)
      /\ last' = Call("collapse", n, r)
      /\ snap' = IF r.ok
                 THEN [phase |-> "collapsed", node |-> n,
                       hiddenIds |-> hiddenIds, dataHidden |-> dataHidden,
                       position |-> position, cyEdges |-> cyEdges,
                       collapsedIds |-> collapsedIds, moved |-> {}]
                 ELSE NoSnap
      /\ IF r.ok /\ autoLayout
         THEN debouncedLayout(n)
         ELSE UNCHANGED <<timeoutId, timers, window>>
      /\ UNCHANGED <<moves, opts, autoLayout, layouts>>

\* api.expand(node)
Expand(n) ==
  LET r == expand(Cur, n)
  IN  /\ Install(r.S)
      /\ last' = Call("expand", n, r)
      /\ snap' = IF r.ok /\ snap.phase = "collapsed" /\ snap.node = n
                 THEN [snap EXCEPT !.phase = "expanded"]
                 ELSE NoSnap
      /\ IF r.ok /\ autoLayout
         THEN debouncedLayout(n)
         ELSE UNCHANGED <<timeoutId, timers, window>>
      /\ UNCHANGED <<moves, opts, autoLayout, layouts>>

\* node.position(pos) from outside the engine
SetPosition(n, d) ==
  /\ moves < MaxMoves
  /\ moves' = moves + 1
  /\ position' = cyPosition(Cur, n, [x |-> position[n].x + d.x,
                                     y |-> position[n].y + d.y]).position
  /\ last' = [NoCall EXCEPT !.op = "position"]
  /\ snap' = IF snap.phase = "collapsed"
             THEN [snap EXCEPT !.moved = @ \cup {n}]
             ELSE NoSnap
  /\ UNCHANGED <<cyEdges, dataHidden, engine, opts, animations, scheduling>>

Next ==
  \/ \E n \in Nodes : Collapse(n)
  \/ \E n \in Nodes : Expand(n)

Spec == Init /\ [][Next]_vars

(***************************************************************************)
(* The same engine on the hierarchy without edges, with nodes moved from   *)
(* outside between the calls: the position memory does not read the edges. *)
(***************************************************************************)
InitPos ==
  /\ cyEdges = <<>>
  /\ position = InitialPosition
  /\ dataHidden = {}
  /\ collapsedIds = {}
  /\ hiddenElementsMap = EmptyMap
  /\ savedPositionsMap = EmptyMap
  /\ projectionEdgesMap = EmptyMap
  /\ hiddenIds = {}
  /\ opts = NoOpts
  /\ animations = <<>>
  /\ last = NoCall
  /\ snap = NoSnap
  /\ moves = 0
  /\ NewScheduling

NextPos ==
  \/ \E n \in Nodes : Collapse(n)
  \/ \E n \in Nodes : Expand(n)
  \/ \E n \in MovedNodes, d \in Deltas : SetPosition(n, d)

SpecPos == InitPos /\ [][NextPos]_vars

(***************************************************************************)
(* The engine on the hierarchy without edges, with styled leaves placed on *)
(* or near each other and api.resolveOverlaps() called between collapses   *)
(* and expands.                                                            *)
(***************************************************************************)
MaxResolves == 1

\* the positions a leaf may start at, in pixels
StartPositions(n) ==
  IF n = "c2:1" THEN {[x |-> 3, y |-> 1]}
  ELSE {[x |-> 0, y |-> 0], [x |-> 3, y |-> 1]}

\* the options the api is made with
OverlapOpts ==
  [maxIterations : {Absent, 1, 2}, overlapPadding : {Absent, 1},
   animate : {FALSE}, autoLayout : {FALSE}]

Leaves == {n \in Nodes : ~IsParent(n)}

InitOverlap ==
  /\ cyEdges = <<>>
  /\ \E f \in [Leaves -> UNION {StartPositions(n) : n \in Leaves}] :
       /\ \A n \in Leaves : f[n] \in StartPositions(n)
       /\ position =
                   [n \in Nodes |->
                     IF n \in Leaves
                     THEN [x |-> f[n].x * Scale, y |-> f[n].y * Scale]
                     ELSE [x |-> InitialPosition[n].x * Scale,
                           y |-> InitialPosition[n].y * Scale]]
  /\ dataHidden = {}
  /\ collapsedIds = {}
  /\ hiddenElementsMap = EmptyMap
  /\ savedPositionsMap = EmptyMap
  /\ projectionEdgesMap = EmptyMap
  /\ hiddenIds = {}
  /\ opts \in OverlapOpts
  /\ animations = <<>>
  /\ last = NoCall
  /\ snap = NoSnap
  /\ moves = 0
  /\ NewScheduling

\* api.resolveOverlaps()
ResolveOverlaps ==
  LET r == resolveOverlaps(Cur, opts)
  IN  /\ moves < MaxResolves
      /\ moves' = moves + 1
      /\ Install(r.S)
      /\ last' = [NoCall EXCEPT !.op = "resolveOverlaps", !.ok = r.ok,
                                !.emitted = r.S.emitted,
                                !.iterations = r.iterations]
      /\ snap' = NoSnap
      /\ UNCHANGED <<opts, scheduling>>

NextOverlap ==
  \/ \E n \in Nodes : Collapse(n)
  \/ \E n \in Nodes : Expand(n)
  \/ ResolveOverlaps

SpecOverlap == InitOverlap /\ [][NextOverlap]_vars

(***************************************************************************)
(* The engine with edges, and with api.collapseAll() and api.expandAll()   *)
(* next to the calls on single nodes.                                      *)
(***************************************************************************)
\* api.collapseAll()
CollapseAll ==
  LET S == collapseAll(Cur)
  IN  /\ Install(S)
      /\ last' = [NoCall EXCEPT !.op = "collapseAll", !.ok = TRUE,
                                !.emitted = S.emitted]
      /\ snap' = NoSnap
      /\ UNCHANGED <<moves, opts, scheduling>>

\* api.expandAll()
ExpandAll ==
  LET S == expandAll(Cur)
  IN  /\ Install(S)
      /\ last' = [NoCall EXCEPT !.op = "expandAll", !.ok = TRUE,
                                !.emitted = S.emitted]
      /\ snap' = NoSnap
      /\ UNCHANGED <<moves, opts, scheduling>>

NextAll ==
  \/ \E n \in Nodes : Collapse(n)
  \/ \E n \in Nodes : Expand(n)
  \/ CollapseAll
  \/ ExpandAll

SpecAll == Init /\ [][NextAll]_vars

(***************************************************************************)
(* The engine without edges, with outside position writes, and with        *)
(* api.collapseAll() and api.expandAll().                                  *)
(***************************************************************************)
NextPosAll ==
  \/ \E n \in Nodes : Collapse(n)
  \/ \E n \in Nodes : Expand(n)
  \/ \E n \in MovedNodes, d \in Deltas : SetPosition(n, d)
  \/ CollapseAll
  \/ ExpandAll

SpecPosAll == InitPos /\ [][NextPosAll]_vars

(***************************************************************************)
(* The engine without edges, made with or without the animate option (the  *)
(* registered extension sets animate: true when the caller gives none),    *)
(* with outside position writes and with the animations finishing at any   *)
(* later time, or never (a headless core runs no animation).               *)
(***************************************************************************)
MaxAnimations == 2

\* the position writes made from outside a call: moves and finished animations
MaxWrites == 2

InitAnimate ==
  /\ cyEdges = <<>>
  /\ position = InitialPosition
  /\ dataHidden = {}
  /\ collapsedIds = {}
  /\ hiddenElementsMap = EmptyMap
  /\ savedPositionsMap = EmptyMap
  /\ projectionEdgesMap = EmptyMap
  /\ hiddenIds = {}
  /\ opts \in {NoOpts, [NoOpts EXCEPT !.animate = TRUE]}
  /\ animations = <<>>
  /\ last = NoCall
  /\ snap = NoSnap
  /\ moves = 0
  /\ NewScheduling

\* the animation started first finishes: its last frame writes the position
AnimationEnds ==
  /\ animations # <<>>
  /\ moves < MaxWrites
  /\ moves' = moves + 1
  /\ position' = [position EXCEPT ![Head(animations).node] =
                                     Head(animations).position]
  /\ animations' = Tail(animations)
  /\ last' = [NoCall EXCEPT !.op = "animation"]
  /\ snap' = NoSnap
  /\ UNCHANGED <<cyEdges, dataHidden, engine, opts, scheduling>>

NextAnimate ==
  \/ \E n \in Nodes : Collapse(n)
  \/ \E n \in Nodes : Len(animations) < MaxAnimations /\ Expand(n)
  \/ \E n \in MovedNodes, d \in Deltas : SetPosition(n, d)
  \/ AnimationEnds

SpecAnimate == InitAnimate /\ [][NextAnimate]_vars

(***************************************************************************)
(* Local layouts run through the api: the graph has overlapping leaves and *)
(* at most one edge; the layout algorithm is any write of one position.    *)
(***************************************************************************)
\* the calls of api.runLocalLayout made
MaxLayouts == 1

\* the edges of the graph a local layout runs on
LayoutGraphs == {<<>>, <<CandidateEdges[1]>>, <<CandidateEdges[8]>>}

\* the options the api is made with
LayoutOpts == {[NoOpts EXCEPT !.maxIterations = 2, !.overlapPadding = 1]}

\* the compounds collapsed and expanded around the layouts
LayoutCompounds == {"p", "q"}

\* the nodes whose position the layout algorithm may write: a compound and a
\* leaf
LayoutWrites == {"q", "x"}

InitLocal ==
  /\ cyEdges \in LayoutGraphs
  /\ \E f \in [Leaves -> UNION {StartPositions(n) : n \in Leaves}] :
       /\ \A n \in Leaves : f[n] \in StartPositions(n)
       /\ \A n \in Leaves \ {"x"} : f[n] = [x |-> 3, y |-> 1]
       /\ position =
                   [n \in Nodes |->
                     IF n \in Leaves
                     THEN [x |-> f[n].x * Scale, y |-> f[n].y * Scale]
                     ELSE [x |-> InitialPosition[n].x * Scale,
                           y |-> InitialPosition[n].y * Scale]]
  /\ dataHidden = {}
  /\ collapsedIds = {}
  /\ hiddenElementsMap = EmptyMap
  /\ savedPositionsMap = EmptyMap
  /\ projectionEdgesMap = EmptyMap
  /\ hiddenIds = {}
  /\ opts \in LayoutOpts
  /\ animations = <<>>
  /\ last = NoCall
  /\ snap = NoSnap
  /\ moves = 0
  /\ NewScheduling

\* what a local layout was invoked with and on: the node, the affected set,
\* the visible nodes and the positions at that moment
Invocation(n) ==
  [node |-> n, affected |-> affectedNodes(Cur, n),
   visible |-> Range(getVisibleNodes(Cur)), position |-> position]

\* the layouts not yet stopped, with the layout r started added
Started(r, n) ==
  IF r.running
  THEN Append(layouts, [layout |-> r.layout, invocation |-> Invocation(n)])
  ELSE layouts

\* the promise of a local layout has completed
Completed(invocation) ==
  [phase |-> "layoutDone", node |-> invocation.node,
   affected |-> invocation.affected, visible |-> invocation.visible,
   position |-> invocation.position]

\* api.runLocalLayout(node)
RunLocalLayout(n) ==
  LET r == runLocalLayout(Cur, n, opts)
  IN  /\ moves < MaxLayouts
      /\ moves' = moves + 1
      /\ Install(r.S)
      /\ layouts' = Started(r, n)
      /\ last' = [NoCall EXCEPT !.op = "runLocalLayout", !.ok = TRUE,
                                !.node = n, !.emitted = r.S.emitted]
      /\ snap' = IF r.running THEN NoSnap ELSE Completed(Invocation(n))
      /\ UNCHANGED <<opts, autoLayout, timeoutId, timers, window>>

\* the layout started first stops: the algorithm has written the position of
\* node m, and the layoutstop handler runs
LayoutStop(m, d) ==
  /\ layouts # <<>>
  /\ LET written == cyPosition(Cur, m, [x |-> position[m].x + d.x * Scale,
                                        y |-> position[m].y + d.y * Scale])
         S == layoutstop(written, Head(layouts).layout, opts)
     IN  /\ Install(S)
         /\ last' = [NoCall EXCEPT !.op = "layoutstop", !.ok = TRUE,
                                   !.node = m, !.emitted = S.emitted]
  /\ layouts' = Tail(layouts)
  /\ snap' = Completed(Head(layouts).invocation)
  /\ UNCHANGED <<moves, opts, autoLayout, timeoutId, timers, window>>

NextLocal ==
  \/ \E n \in LayoutCompounds : Collapse(n)
  \/ \E n \in LayoutCompounds : Expand(n)
  \/ \E n \in Nodes : RunLocalLayout(n)
  \/ \E m \in LayoutWrites, d \in Deltas : LayoutStop(m, d)

SpecLocal == InitLocal /\ [][NextLocal]_vars

(***************************************************************************)
(* The resolver and the overlap test called through the api, between       *)
(* collapses and expands that hide overlapping leaves.                     *)
(***************************************************************************)
\* the calls made of api.hasOverlaps, and of api.resolveOverlaps before them
MaxScans == 2

\* api.hasOverlaps()
HasOverlaps ==
  /\ moves < MaxScans
  /\ moves' = moves + 1
  /\ last' = [NoCall EXCEPT !.op = "hasOverlaps", !.ok = hasOverlaps(Cur)]
  /\ snap' = NoSnap
  /\ UNCHANGED <<engine, graph, opts, animations, scheduling>>

NextScope ==
  \/ \E n \in LayoutCompounds : Collapse(n)
  \/ \E n \in LayoutCompounds : Expand(n)
  \/ HasOverlaps
  \/ ResolveOverlaps

SpecScope == InitOverlap /\ [][NextScope]_vars

(***************************************************************************)
(* One step of the resolver's inner loop: two visible leaves, neither      *)
(* above the other, whose boxes overlap are separated.                     *)
(***************************************************************************)
\* the separations made
MaxSeparations == 2

\* the body of the inner loop of resolveOverlaps for the pair (i, j) of the
\* visible leaves: calculateOverlap, and separateNodes when there is one
SeparateNodes(i, j) ==
  LET nodes == VisibleLeaves(Cur)
      n1 == nodes[i]
      n2 == nodes[j]
      overlap == calculateOverlap(Cur, n1, n2)
      S == separateNodes(Cur, n1, n2, overlap, PaddingOf(opts))
  IN  /\ moves < MaxSeparations
      /\ i \in 1..Len(nodes) /\ j \in (i + 1)..Len(nodes)
      /\ ~Nested(n1, n2)
      /\ overlap.overlaps
      /\ moves' = moves + 1
      /\ Install(S)
      /\ last' = [NoCall EXCEPT !.op = "separateNodes", !.ok = TRUE]
      /\ snap' = [phase |-> "separated", n1 |-> n1, n2 |-> n2,
                  overlap |-> overlap, padding |-> PaddingOf(opts),
                  position |-> position]
      /\ UNCHANGED <<opts, scheduling>>

NextSeparate ==
  \/ Collapse("q")
  \/ Expand("q")
  \/ \E i, j \in 1..Len(NodeOrder) : SeparateNodes(i, j)

SpecSeparate == InitOverlap /\ [][NextSeparate]_vars

(***************************************************************************)
(* Local layouts in flight at the same time: api.runLocalLayout is called  *)
(* again before the layout started by the call before has stopped, and the *)
(* layouts stop in either order.  Each layout writes a node of its own     *)
(* eles (the affected set of its call).                                    *)
(***************************************************************************)
\* the calls of api.runLocalLayout made
MaxConcurrent == 2

\* the nodes the layouts are run for: a compound (with its child) and a leaf
\* (with its neighbour)
ConcurrentNodes == {"q", "x"}

\* the displacements a layout gives to a node
LayoutDeltas == {[x |-> 3, y |-> -2], [x |-> -40, y |-> 0]}

\* positions of a graph laid out with no two nodes near each other
SpreadPosition ==
  [n \in Nodes |->
     LET i == CHOOSE j \in 1..Len(NodeOrder) : NodeOrder[j] = n
     IN  [x |-> 100 * i, y |-> 0]]

InitConcurrent ==
  /\ cyEdges = <<CandidateEdges[8]>>
  /\ \E f \in {SpreadPosition, InitialPosition} :
       position = [n \in Nodes |-> [x |-> f[n].x * Scale,
                                   y |-> f[n].y * Scale]]
  /\ dataHidden = {}
  /\ collapsedIds = {}
  /\ hiddenElementsMap = EmptyMap
  /\ savedPositionsMap = EmptyMap
  /\ projectionEdgesMap = EmptyMap
  /\ hiddenIds = {}
  /\ opts \in LayoutOpts
  /\ animations = <<>>
  /\ last = NoCall
  /\ snap = NoSnap
  /\ moves = 0
  /\ NewScheduling

\* api.runLocalLayout(node), also while a layout is running
RunLocalLayoutWhileRunning(n) ==
  LET r == runLocalLayout(Cur, n, opts)
  IN  /\ moves < MaxConcurrent
      /\ moves' = moves + 1
      /\ Install(r.S)
      /\ layouts' = Started(r, n)
      /\ last' = [NoCall EXCEPT !.op = "runLocalLayout", !.ok = TRUE,
                                !.node = n, !.emitted = r.S.emitted]
      /\ snap' = IF r.running THEN NoSnap ELSE Completed(Invocation(n))
      /\ UNCHANGED <<opts, autoLayout, timeoutId, timers, window>>

\* the sequence s without its i-th element
RemoveAt(s, i) == SubSeq(s, 1, i - 1) \o SubSeq(s, i + 1, Len(s))

\* the i-th of the running layouts stops: the algorithm has written the
\* position of node m, one of its eles, and its layoutstop handler runs
LayoutStops(i, m, d) ==
  /\ i \in 1..Len(layouts)
  /\ m \in layouts[i].invocation.affected
  /\ LET written == cyPosition(Cur, m, [x |-> position[m].x + d.x * Scale,
                                        y |-> position[m].y + d.y * Scale])
         S == layoutstop(written, layouts[i].layout, opts)
     IN  /\ Install(S)
         /\ last' = [NoCall EXCEPT !.op = "layoutstop", !.ok = TRUE,
                                   !.node = m, !.emitted = S.emitted]
  /\ layouts' = RemoveAt(layouts, i)
  /\ snap' = Completed(layouts[i].invocation)
  /\ UNCHANGED <<moves, opts, autoLayout, timeoutId, timers, window>>

NextConcurrent ==
  \/ Collapse("q")
  \/ Expand("q")
  \/ \E n \in ConcurrentNodes : RunLocalLayoutWhileRunning(n)
  \/ \E i \in 1..MaxConcurrent, m \in Nodes, d \in LayoutDeltas :
       LayoutStops(i, m, d)

SpecConcurrent == InitConcurrent /\ [][NextConcurrent]_vars

(***************************************************************************)
(* Global layouts run through the api, between collapses and expands: the  *)
(* layout algorithm is any write of the position of one of its elements.   *)
(***************************************************************************)
\* the calls of api.runLayout made
MaxGlobalLayouts == 2

\* the edges of the graph a global layout runs on
GlobalGraphs ==
  {<<CandidateEdges[1], CandidateEdges[8]>>,
   <<CandidateEdges[3], CandidateEdges[6]>>}

InitGlobal ==
  /\ cyEdges \in GlobalGraphs
  /\ position = [n \in Nodes |-> [x |-> InitialPosition[n].x * Scale,
                                  y |-> InitialPosition[n].y * Scale]]
  /\ dataHidden = {}
  /\ collapsedIds = {}
  /\ hiddenElementsMap = EmptyMap
  /\ savedPositionsMap = EmptyMap
  /\ projectionEdgesMap = EmptyMap
  /\ hiddenIds = {}
  /\ opts \in LayoutOpts
  /\ animations = <<>>
  /\ last = NoCall
  /\ snap = NoSnap
  /\ moves = 0
  /\ NewScheduling

\* what a global layout was invoked on: the nodes hidden and the edges of the
\* graph at that moment
GlobalInvocation ==
  [hidden |-> {n \in Nodes : isHiddenEle(Cur, n)}, cyEdges |-> cyEdges]

\* api.runLayout(): the layout is made and started, the promise is pending
RunLayout ==
  LET r == runLayout(Cur, opts)
  IN  /\ moves < MaxGlobalLayouts
      /\ moves' = moves + 1
      /\ layouts' = Append(layouts, [eles |-> r.eles,
                                     invocation |-> GlobalInvocation])
      /\ last' = [NoCall EXCEPT !.op = "runLayout", !.ok = TRUE]
      /\ snap' = NoSnap
      /\ UNCHANGED <<engine, graph, opts, animations, autoLayout, timeoutId,
                     timers, window>>

\* the i-th of the running global layouts stops: the algorithm has written
\* the position of node m, one of its eles; the layoutstop handler resolves
\* the overlaps and then the promise
RunLayoutStops(i, m, d) ==
  /\ i \in 1..Len(layouts)
  /\ m \in Range(layouts[i].eles.nodes)
  /\ LET written == cyPosition(Cur, m, [x |-> position[m].x + d.x * Scale,
                                        y |-> position[m].y + d.y * Scale])
         r == runLayoutStopped(written, opts)
     IN  /\ Install(r.S)
         /\ last' = [NoCall EXCEPT !.op = "layoutstop", !.ok = r.ok,
                                   !.node = m, !.emitted = r.S.emitted,
                                   !.iterations = r.iterations]
  /\ layouts' = RemoveAt(layouts, i)
  /\ snap' = [phase |-> "runLayoutDone", eles |-> layouts[i].eles,
              invocation |-> layouts[i].invocation]
  /\ UNCHANGED <<moves, opts, autoLayout, timeoutId, timers, window>>

NextGlobal ==
  \/ \E n \in LayoutCompounds : Collapse(n)
  \/ \E n \in LayoutCompounds : Expand(n)
  \/ RunLayout
  \/ \E i \in 1..MaxGlobalLayouts, m \in LayoutWrites, d \in Deltas :
       RunLayoutStops(i, m, d)

SpecGlobal == InitGlobal /\ [][NextGlobal]_vars

(***************************************************************************)
(* Automatic layout: collapse and expand call the debounced layout         *)
(* function, whose timer fires later.                                      *)
(***************************************************************************)
\* the times the timer of the debounced function fires
MaxFires == 1

InitDebounce ==
  /\ cyEdges = <<CandidateEdges[1]>>
  /\ position = [n \in Nodes |-> [x |-> InitialPosition[n].x * Scale,
                                  y |-> InitialPosition[n].y * Scale]]
  /\ dataHidden = {}
  /\ collapsedIds = {}
  /\ hiddenElementsMap = EmptyMap
  /\ savedPositionsMap = EmptyMap
  /\ projectionEdgesMap = EmptyMap
  /\ hiddenIds = {}
  /\ opts \in {[o EXCEPT !.autoLayout = b] : o \in LayoutOpts, b \in BOOLEAN}
  /\ animations = <<>>
  /\ last = NoCall
  /\ snap = NoSnap
  /\ moves = 0
  /\ NewScheduling

\* api.setAutoLayout(enabled)
SetAutoLayout(enabled) ==
  /\ autoLayout' = enabled
  /\ last' = [NoCall EXCEPT !.op = "setAutoLayout", !.ok = TRUE]
  /\ snap' = NoSnap
  /\ UNCHANGED <<engine, graph, opts, animations, timeoutId, timers, layouts,
                 window,
                 moves>>

\* a waiting timer fires: its callback runs the layout with the argument of
\* the call that set it, then sets timeoutId to null
TimerFires(t) ==
  /\ t \in timers
  /\ moves < MaxFires
  /\ moves' = moves + 1
  /\ LET r == runLocalLayout(Cur, t.node, opts)
     IN  /\ Install(r.S)
         /\ layouts' = Started(r, t.node)
         /\ last' = [NoCall EXCEPT !.op = "timer", !.ok = TRUE,
                                   !.node = t.node,
                                   !.emitted = r.S.emitted]
         /\ snap' = IF r.running THEN NoSnap
                    ELSE Completed(Invocation(t.node))
  /\ timers' = timers \ {t}
  /\ timeoutId' = NoTimer
  /\ window' = [window EXCEPT !.invoked = Append(@, t.node)]
  /\ UNCHANGED <<opts, autoLayout>>

NextDebounce ==
  \/ \E n \in LayoutCompounds : Collapse(n)
  \/ \E n \in LayoutCompounds : Expand(n)
  \/ \E enabled \in BOOLEAN : SetAutoLayout(enabled)
  \/ \E t \in timers : TimerFires(t)
  \/ \E d \in Deltas : LayoutStop("x", d)

SpecDebounce == InitDebounce /\ [][NextDebounce]_vars

(***************************************************************************)
(* Collapse and expand on a graph whose projection edges may be deleted    *)
(* from outside the engine.                                                *)
(***************************************************************************)
\* the edges deleted from outside
MaxRemoves == 1

\* cy.remove(edge) from outside the engine, of a projection edge
RemoveEdge(id) ==
  /\ moves < MaxRemoves
  /\ id \in EdgeIds(Cur)
  /\ EdgeById(Cur, id).isProjection
  /\ moves' = moves + 1
  /\ Install(cyRemove(Cur, id))
  /\ last' = [NoCall EXCEPT !.op = "remove"]
  /\ snap' = NoSnap
  /\ UNCHANGED <<opts, scheduling>>

NextRemove ==
  \/ \E n \in Nodes : Collapse(n)
  \/ \E n \in Nodes : Expand(n)
  \/ \E id \in EdgeIds(Cur) : RemoveEdge(id)

\* the graphs: an edge into q with an edge out of q, to the same node or to
\* the node whose id holds a ':'
RemoveGraphs ==
  {<<CandidateEdges[1], CandidateEdges[4]>>,
   <<CandidateEdges[4], CandidateEdges[5]>>}

InitRemove ==
  /\ cyEdges \in RemoveGraphs
  /\ position = InitialPosition
  /\ dataHidden = {}
  /\ collapsedIds = {}
  /\ hiddenElementsMap = EmptyMap
  /\ savedPositionsMap = EmptyMap
  /\ projectionEdgesMap = EmptyMap
  /\ hiddenIds = {}
  /\ opts = NoOpts
  /\ animations = <<>>
  /\ last = NoCall
  /\ snap = NoSnap
  /\ moves = 0
  /\ NewScheduling

SpecRemove == InitRemove /\ [][NextRemove]_vars

(***************************************************************************)
(* Graphs in which an edge of the user carries an id that the engine will  *)
(* give to a projection edge.                                              *)
(***************************************************************************)
\* an edge between two leaves outside the compounds, under the id of the
\* first projection edge of q
TakenIdEdge == Edge(ProjId("q", 0), "x", "c2:1")

IdGraphs ==
  {<<CandidateEdges[1], TakenIdEdge>>, <<TakenIdEdge, CandidateEdges[4]>>,
   <<CandidateEdges[1], CandidateEdges[4]>>}

InitIds ==
  /\ cyEdges \in IdGraphs
  /\ position = InitialPosition
  /\ dataHidden = {}
  /\ collapsedIds = {}
  /\ hiddenElementsMap = EmptyMap
  /\ savedPositionsMap = EmptyMap
  /\ projectionEdgesMap = EmptyMap
  /\ hiddenIds = {}
  /\ opts = NoOpts
  /\ animations = <<>>
  /\ last = NoCall
  /\ snap = NoSnap
  /\ moves = 0
  /\ NewScheduling

SpecIds == InitIds /\ [][NextAll]_vars

(***************************************************************************)
(* Properties                                                              *)
(***************************************************************************)
\* isHidden(ele) now, and before the collapse that snap records
Hidden(id) == isHiddenEle(Cur, id)
HiddenBefore(id) == id \in snap.hiddenIds \/ id \in snap.dataHidden

DescendantSet(n) == Range(Descendants(n))
Subtree(n) == DescendantSet(n) \cup {n}
OriginalEdges == {e \in Range(cyEdges) : ~e.isProjection}
ProjectionEdges == {e \in Range(cyEdges) : e.isProjection}

\* C1: a collapse(n) that directly follows a successful collapse(n) changes
\* neither the hidden set, nor the collapsed set, nor the edges of the graph,
\* nor the recorded projections.
CollapseIdempotent ==
  [][\A n \in Nodes :
       (last.op = "collapse" /\ last.ok /\ last.node = n /\ Collapse(n))
       => UNCHANGED <<hiddenIds, dataHidden, collapsedIds, cyEdges,
                      projectionEdgesMap>>]_vars

\* a second collapse of a node that has projection edges has been made
CollapsedTwice ==
  /\ last.op = "collapse" /\ last.again /\ ~last.ok
  /\ \E n \in collapsedIds : getProjectedEdges(Cur, n) # <<>>

ProjectionEdgesOf(n) ==
  {e \in ProjectionEdges :
     \E k \in 0..Len(cyEdges) : e.id = ProjId(n, k)}

\* C3: after a collapse(P) directly followed by expand(P) the graph holds no
\* projection edge of P, P is not in the collapsed set, and every node and
\* every original edge is hidden exactly if it was hidden before the collapse.
RoundTripRestoresVisibility ==
  snap.phase = "expanded" =>
    /\ ProjectionEdgesOf(snap.node) = {}
    /\ getProjectedEdges(Cur, snap.node) = <<>>
    /\ snap.node \notin collapsedIds
    /\ \A n \in Nodes : Hidden(n) <=> HiddenBefore(n)
    /\ \A e \in OriginalEdges : Hidden(e.id) <=> HiddenBefore(e.id)

\* C4: for every collapsed node P, every other node X and each direction, the
\* graph holds at most one projection edge between P and X in that direction.
AtMostOneProjectionPerDirection ==
  \A P \in collapsedIds : \A X \in Nodes \ {P} :
    /\ Cardinality({e \in ProjectionEdges :
                      e.source = P /\ e.target = X}) <= 1
    /\ Cardinality({e \in ProjectionEdges :
                      e.source = X /\ e.target = P}) <= 1

\* the edges of the graph before the collapse made last: those touching the
\* subtree of P, those touching a descendant of P, those inside the subtree
TouchingSubtree(P) ==
  {e \in Range(snap.cyEdges) : e.source \in Subtree(P) \/ e.target \in Subtree(P)}
TouchingDescendants(P) ==
  {e \in Range(snap.cyEdges) :
     e.source \in DescendantSet(P) \/ e.target \in DescendantSet(P)}
InsideSubtree(P) ==
  {e \in Range(snap.cyEdges) : e.source \in Subtree(P) /\ e.target \in Subtree(P)}

\* every projection edge recorded for P comes from the key of an edge in from
ProjectionsComeFrom(P, from) ==
  \A pe \in ProjectionEdges :
    pe.id \in Range(projectionEdgesMap[P].projIds) =>
      \E e \in from : \E k \in 0..Len(cyEdges) :
        pe = ProjectionEdge(P, GroupKey(e, Subtree(P)), k)

NestingPreserved ==
  snap.phase = "expanded" =>
    \A I \in snap.collapsedIds \cap DescendantSet(snap.node) :
      Ancestors(I) \cap DescendantSet(snap.node) \cap snap.collapsedIds = {}
      => /\ ~Hidden(I)
         /\ isCollapsedNode(Cur, I)
         /\ \A d \in DescendantSet(I) : Hidden(d)

\* C7: a collapse succeeds only on a node with children that is not collapsed,
\* an expand only on a collapsed node; a call that does not succeed returns
\* false, emits nothing and leaves the engine state and the graph unchanged.
InvalidCallsAreNoOps ==
  [][/\ last'.op = "collapse" /\ last'.ok
          => IsParent(last'.node) /\ last'.node \notin collapsedIds
     /\ last'.op = "expand" /\ last'.ok => last'.node \in collapsedIds
     /\ last'.op \in {"collapse", "expand"} /\ ~last'.ok
          => /\ last'.emitted = <<>>
             /\ UNCHANGED <<engine, graph>>]_vars

\* an expand of a node that is not collapsed, made while another node is
InvalidExpandMade ==
  /\ last.op = "expand" /\ ~last.ok /\ ~last.wasCollapsed
  /\ collapsedIds # {}
  /\ ProjectionEdges # {}

\* C9: after a successful collapse(P) every descendant of P is hidden, every
\* edge with an endpoint among the descendants of P is hidden, and P is in the
\* collapsed set and among collapsedNodes().
CollapseHidesSubtree ==
  last.op = "collapse" /\ last.ok =>
    LET P == last.node
    IN  /\ \A d \in DescendantSet(P) : Hidden(d)
        /\ \A e \in Range(cyEdges) :
             (e.source \in DescendantSet(P) \/ e.target \in DescendantSet(P))
             => Hidden(e.id)
        /\ isCollapsedNode(Cur, P)
        /\ P \in Range(collapsedNodes(Cur))

\* C10: for every element of the graph, isHidden is true exactly if its id is
\* in the hidden set, its hidden flag is set exactly if its id is in the hidden
\* set, and hiding or showing it twice is the same as doing so once.
HiddenFlagMatchesHiddenSet ==
  \A id \in Elements(Cur) :
    /\ Hidden(id) <=> id \in hiddenIds
    /\ id \in dataHidden <=> id \in hiddenIds
    /\ hideElement(hideElement(Cur, id), id) = hideElement(Cur, id)
    /\ showElement(showElement(Cur, id), id) = showElement(Cur, id)

\* C8: resolveOverlaps makes at most the configured maximum number of passes;
\* when it returns true no two visible leaves overlap and nothing was emitted;
\* when it returns false it made exactly the maximum number of passes, visible
\* leaves still overlap, and it emitted one layoutResetRequired notification.
ResolveOverlapsFaithful ==
  last.op = "resolveOverlaps" =>
    /\ last.iterations <= MaxIterationsOf(opts)
    /\ last.ok => ~hasOverlaps(Cur) /\ last.emitted = <<>>
    /\ ~last.ok =>
         /\ last.iterations = MaxIterationsOf(opts)
         /\ hasOverlaps(Cur)
         /\ Len(last.emitted) = 1
         /\ last.emitted[1].name = "compoundmanager.layoutResetRequired"

\* a resolution that ran out of passes after more than one
ResolveOverlapsGaveUp ==
  /\ last.op = "resolveOverlaps" /\ ~last.ok
  /\ last.iterations > 1

\* C11: no descendant id is in the hidden-descendant records of two different
\* collapsed nodes.
CollapseRecordsDisjoint ==
  \A a \in collapsedIds : \A b \in collapsedIds \ {a} :
    Range(hiddenElementsMap[a]) \cap Range(hiddenElementsMap[b]) = {}

\* the nodes the notifications of the last call carry, in the order emitted
EmittedNodes == [i \in 1..Len(last.emitted) |-> last.emitted[i].node]

\* C12: collapseAll collapses in order of non-increasing ancestor-chain
\* length, so every compound is collapsed, and its notification emitted,
\* before any of its ancestors; when it returns every compound is collapsed.
CollapseAllDeepestFirst ==
  [][last'.op = "collapseAll" =>
       LET emitted == last'.emitted
       IN  /\ \A i \in 1..Len(emitted) : \A j \in i..Len(emitted) :
                /\ emitted[i].name = "compoundmanager.collapse"
                /\ Depth(emitted[i].node) >= Depth(emitted[j].node)
                /\ emitted[i].node \notin Ancestors(emitted[j].node)
           /\ {emitted[i].node : i \in 1..Len(emitted)}
                = {n \in Nodes : IsParent(n)} \ collapsedIds
           /\ collapsedIds' = {n \in Nodes : IsParent(n)}]_vars

\* a collapseAll that collapsed three nested compounds
CollapseAllMade ==
  /\ last.op = "collapseAll"
  /\ Len(last.emitted) = 3
  /\ ProjectionEdges # {}

\* the orders in which the nodes of a sequence can be taken
Orders(nodes) ==
  {o \in [1..Len(nodes) -> Range(nodes)] :
     \A i \in 1..Len(nodes) : \A j \in 1..Len(nodes) : o[i] = o[j] => i = j}

\* C13: expandAll expands every node of the collapsed set and leaves the
\* collapsed set empty, and the hidden set, the edges in the graph and the
\* positions it ends with are those of expanding the collapsed nodes in any
\* other order.
ExpandAllOrderIndependent ==
  [][last'.op = "expandAll" =>
       /\ collapsedIds' = {}
       /\ Len(last'.emitted) = Cardinality(collapsedIds)
       /\ {last'.emitted[i].node : i \in 1..Len(last'.emitted)} = collapsedIds
       /\ \A o \in Orders(collapsedNodes(Cur)) :
            LET T == expandEach(Cur, o)
            IN  /\ T.hiddenIds = hiddenIds'
                /\ T.dataHidden = dataHidden'
                /\ Range(T.cyEdges) = Range(cyEdges')
                /\ T.position = position']_vars

\* an expandAll of three nested collapsed compounds, one of them moved
ExpandAllMade ==
  /\ last.op = "expandAll"
  /\ Len(last.emitted) = 3
  /\ position # InitialPosition

\* the parent's position in pos plus the offset (c minus P) of the positions
\* before
OffsetFrom(pos, before, P, c) ==
  [x |-> pos[P].x + (before[c].x - before[P].x),
   y |-> pos[P].y + (before[c].y - before[P].y)]

\* C14: after a successful collapse(P), a change of P's position by any
\* amount and then expand(P), every direct child c of P is at P's current
\* position plus the offset (c minus P) it had at the collapse, and P has no
\* saved record left; with and without the animate option.
RestoreIsParentRelative ==
  last.op = "expand" /\ last.ok /\ snap.phase = "expanded"
    /\ snap.moved \subseteq {snap.node} =>
      /\ \A c \in Range(Children(snap.node)) :
           position[c] = OffsetFrom(position, snap.position, snap.node, c)
      /\ snap.node \notin DOMAIN savedPositionsMap

\* an expand of a compound with children that was moved while collapsed
RestoreAfterParentMoved ==
  /\ last.op = "expand" /\ last.ok /\ snap.phase = "expanded"
  /\ snap.moved = {snap.node}
  /\ position[snap.node] # snap.position[snap.node]
  /\ Children(snap.node) # <<>>

\* C15: when the promise of runLocalLayout(node) completes, every node that
\* was visible at the invocation and is outside the affected set (the node,
\* its visible neighbours, its visible children) has the position it had at
\* the invocation.
LocalLayoutIsLocal ==
  snap.phase = "layoutDone" =>
    \A m \in snap.visible \ snap.affected : position[m] = snap.position[m]

\* C16: with auto-layout enabled, when the timer of the debounced layout
\* fires, the local layout is invoked exactly once for every node that a
\* successful collapse or expand call was made for within the window.
DebouncePerTriggerNode ==
  last.op = "timer" =>
    \A n \in window.triggers :
      Cardinality({i \in 1..Len(window.invoked) : window.invoked[i] = n}) = 1

\* the collapsed nodes whose projection record holds the id
RecordedBy(id) ==
  {n \in collapsedIds :
     /\ n \in DOMAIN projectionEdgesMap
     /\ id \in Range(projectionEdgesMap[n].projIds)}

NotificationsFollowStateChange ==
  last.ok /\ last.op \in {"collapse", "expand"} =>
    /\ Len(last.emitted) = 1
    /\ LET e == last.emitted[1]
           n == last.node
       IN  /\ e.node = n
           /\ last.op = "collapse" =>
                /\ e.name = "compoundmanager.collapse"
                /\ n \in e.seen.collapsedIds
                /\ \A d \in Range(Descendants(n)) : isHiddenEle(e.seen, d)
                /\ n \in DOMAIN e.seen.projectionEdgesMap
                /\ e.seen.cyEdges = cyEdges
           /\ last.op = "expand" =>
                /\ e.name = "compoundmanager.expand"
                /\ n \notin e.seen.collapsedIds
                /\ n \notin DOMAIN e.seen.projectionEdgesMap
                /\ \A f \in Range(e.seen.cyEdges) :
                     f.isProjection =>
                       \A k \in 0..Len(e.seen.cyEdges) : f.id # ProjId(n, k)

\* the expand of a node that has a boundary edge, after its collapse: the
\* projection edge made for it is gone when the notification is emitted
NotifiedWithProjections ==
  /\ last.ok /\ last.op = "expand" /\ snap.phase = "expanded"
  /\ snap.node = last.node
  /\ Len(last.emitted) = 1
  /\ \E f \in Range(snap.cyEdges) :
       IsExternalEdge(f, Range(Descendants(last.node)))
  /\ Range(last.emitted[1].seen.cyEdges) = Range(snap.cyEdges)

\* the edges of the graph before the collapse with exactly one endpoint in
\* the subtree of P (P and its descendants)
BoundaryEdges(P) == {f \in Range(snap.cyEdges) : IsExternalEdge(f, Subtree(P))}

\* the edges in the graph that the projection record of P names
RecordedProjections(P) ==
  {g \in Range(cyEdges) : g.id \in Range(projectionEdgesMap[P].projIds)}

\* C19: after a successful collapse(P), every edge with exactly one endpoint
\* in P's subtree (P and its descendants), edges attached to P itself
\* included, is hidden and recorded as an original edge of P, and for each
\* external node X of such an edge there is exactly one projection edge P->X
\* when an edge leaves the subtree for X and exactly one X->P when an edge
\* enters it from X.
ProjectionsClassifyWholeSubtree ==
  last.op = "collapse" /\ last.ok /\ snap.phase = "collapsed" =>
    LET P == snap.node
    IN  /\ \A f \in BoundaryEdges(P) :
             /\ isHiddenEle(Cur, f.id)
             /\ f.id \in Range(projectionEdgesMap[P].originalIds)
        /\ \A f \in BoundaryEdges(P) :
             IF f.source \in Subtree(P)
             THEN Cardinality({g \in RecordedProjections(P) :
                                 g.source = P /\ g.target = f.target}) = 1
             ELSE Cardinality({g \in RecordedProjections(P) :
                                 g.source = f.source /\ g.target = P}) = 1

\* C20: in every state reached by collapse, expand, collapseAll and expandAll
\* an edge that is no projection is hidden exactly when one of its endpoints
\* is hidden.
OriginalEdgeHiddenIffEndpointHidden ==
  \A e \in OriginalEdges :
    isHiddenEle(Cur, e.id)
      <=> (isHiddenEle(Cur, e.source) \/ isHiddenEle(Cur, e.target))

\* after an expand, an edge that stays hidden with one endpoint shown and the
\* other still hidden, next to an edge shown again
EdgeKeptHiddenByOneEndpoint ==
  /\ last.op \in {"expand", "expandAll"} /\ last.ok
  /\ \E e \in OriginalEdges :
       /\ isHiddenEle(Cur, e.id)
       /\ isHiddenEle(Cur, e.source) # isHiddenEle(Cur, e.target)
       /\ \E n \in {e.source, e.target} :
            ~isHiddenEle(Cur, n) /\ ParentOf(n) = last.node
  /\ \E e \in OriginalEdges :
       ~isHiddenEle(Cur, e.id) /\ last.node \in Ancestors(e.source)

\* the nodes with an ancestor in the collapsed set
UnderCollapsed == {n \in Nodes : Ancestors(n) \cap collapsedIds # {}}

\* C21: in every state reached by collapse and expand calls, every node with
\* an ancestor in the collapsed set is hidden, and every edge that is no
\* projection and touches such a node is hidden.
DescendantsOfCollapsedHidden ==
  \A n \in UnderCollapsed :
    /\ isHiddenEle(Cur, n)
    /\ \A e \in OriginalEdges :
         n \in {e.source, e.target} => isHiddenEle(Cur, e.id)

\* C22: in every reachable state each projection edge in the graph is hidden
\* exactly when one of its endpoints is hidden.
ProjectionHiddenIffEndpointHidden ==
  \A e \in ProjectionEdges :
    isHiddenEle(Cur, e.id)
      <=> (isHiddenEle(Cur, e.source) \/ isHiddenEle(Cur, e.target))

\* C23: after expandAll(), from any state reached by collapse, expand and
\* collapseAll, no node and no edge is hidden, the graph has no projection
\* edge, and the collapsed set and all collapse records are empty.
ExpandAllRestoresGraph ==
  last.op = "expandAll" =>
    /\ \A id \in Elements(Cur) : ~isHiddenEle(Cur, id)
    /\ ProjectionEdges = {}
    /\ collapsedIds = {}
    /\ hiddenElementsMap = EmptyMap
    /\ savedPositionsMap = EmptyMap
    /\ projectionEdgesMap = EmptyMap

\* an expandAll of nested collapsed compounds that had made projection edges
\* and hidden edges
ExpandAllAfterNestedCollapse ==
  /\ last.op = "expandAll"
  /\ Len(last.emitted) >= 2
  /\ \E i \in 1..Len(last.emitted) :
       \E f \in Range(last.emitted[1].seen.cyEdges) :
         f.isProjection /\ f.id = ProjId(last.emitted[i].node, 0)
                       /\ i > 1
  /\ cyEdges # <<>>

\* the nodes of the notifications of this name that the last call emitted
Notified(name) ==
  {last.emitted[i].node :
     i \in {j \in 1..Len(last.emitted) : last.emitted[j].name = name}}

\* the nodes with a hidden-descendants record, with a saved-positions record
\* and with a projection record are the collapsed nodes
RecordsMatchCollapsedSet ==
  /\ DOMAIN hiddenElementsMap = collapsedIds
  /\ DOMAIN savedPositionsMap = collapsedIds
  /\ DOMAIN projectionEdgesMap = collapsedIds

\* a step adds the nodes whose collapse succeeded in it and takes away those
\* whose expand succeeded in it
RecordsFollowCalls ==
  /\ collapsedIds' \ collapsedIds = Notified("compoundmanager.collapse")'
  /\ collapsedIds \ collapsedIds' = Notified("compoundmanager.expand")'

\* C24: in every reachable state the ids with a hidden-descendants record,
\* with a saved-positions record, with a projection record and the collapsed
\* set are equal, and a record is created by the successful collapse of its
\* node and destroyed by the successful expand of it.
CollapseRecordLifecycle ==
  [][RecordsMatchCollapsedSet' /\ RecordsFollowCalls]_vars

\* an expand that destroyed the records of one node and left those of another
RecordDestroyedNextToAnother ==
  /\ last.op = "expand" /\ last.ok
  /\ collapsedIds # {}
  /\ last.node \notin DOMAIN savedPositionsMap
  /\ \E n \in collapsedIds : n \in Ancestors(last.node)

AutoLayoutGating ==
  [][/\ last'.op \in {"collapse", "expand"} =>
          /\ layouts' = layouts
          /\ IF autoLayout /\ last'.ok
             THEN /\ timeoutId'.pending
                  /\ timers' = {[id |-> timeoutId'.id, node |-> last'.node]}
             ELSE UNCHANGED <<timeoutId, timers>>
     /\ layouts' # layouts /\ Len(layouts') > Len(layouts) =>
          /\ last'.op = "timer"
          /\ timeoutId.pending
          /\ UNCHANGED <<engine, cyEdges, dataHidden>>]_vars

\* the timer that a successful call set with auto-layout enabled has fired
\* and started a layout
LayoutScheduledAndStarted ==
  /\ last.op = "timer" /\ layouts # <<>>
  /\ window.triggers # {} /\ ~timeoutId.pending


\* C27: debounce supersedes pending calls. At any time at most one timer of
\* the debounced layout is waiting, and it is the one timeoutId names, set by
\* the latest call with that call's argument; a call that sets a timer
\* cancels the one that was waiting; when the timer fires the layout runs
\* once, for the node of the last call, and nothing is left pending.
DebounceSupersedesPending ==
  /\ [](/\ Cardinality(timers) <= 1
        /\ timeoutId.pending <=> timers # {}
        /\ timeoutId.pending =>
              timers = {[id |-> timeoutId.id, node |-> window.last]}
        /\ Len(window.invoked) <= 1)
  /\ [][/\ last'.op \in {"collapse", "expand"} /\ timers' # timers =>
             timers' \cap timers = {}
        /\ last'.op = "timer" =>
             /\ window'.invoked = <<window.last>>
             /\ timers' = {}
             /\ ~timeoutId'.pending]_vars

\* several calls for different nodes were made while a timer was waiting, and
\* the timer has fired
SupersededCallsThenFired ==
  /\ last.op = "timer"
  /\ Cardinality(window.triggers) >= 2
  /\ window.invoked = <<window.last>>
  /\ timers = {}


\* C28: concurrent local layouts do not undo each other. When a layout
\* stops right after another layout that was in flight with it, and their
\* affected sets are disjoint, and no overlap is left for the resolution to
\* separate, the nodes of the layout that stopped first keep the positions
\* they had: their own layout's, not the ones in the other's snapshot.
ConcurrentLayoutsKeepResults ==
  [][(/\ last.op = "layoutstop" /\ last'.op = "layoutstop"
      /\ Len(layouts) = 1 /\ layouts' = <<>>
      /\ snap.phase = "layoutDone"
      /\ snap.affected \cap layouts[1].invocation.affected = {}
      /\ ~hasOverlaps(Cur) /\ ~hasOverlaps(Cur'))
     => \A m \in snap.affected : position'[m] = position[m]]_vars

\* the displacement of node n since the positions before
Displacement(before, n) ==
  [x |-> position[n].x - before[n].x, y |-> position[n].y - before[n].y]

\* C29: separateNodes moves the two nodes along one axis only, the one with
\* the strictly smaller overlap (the vertical one on a tie), by equal and
\* opposite displacements of half the overlap on that axis plus the padding,
\* the first node towards the side its centre lies on; with a positive
\* padding the two boxes do not intersect afterwards.
SeparationAsSpecified ==
  snap.phase = "separated" =>
    LET o == snap.overlap
        d1 == Displacement(snap.position, snap.n1)
        d2 == Displacement(snap.position, snap.n2)
        horizontal == o.overlapX < o.overlapY
        along == IF horizontal THEN d1.x ELSE d1.y
        across == IF horizontal THEN d1.y ELSE d1.x
        amount == IF horizontal THEN o.overlapX ELSE o.overlapY
        centres == IF horizontal THEN o.dx ELSE o.dy
    IN  /\ d2.x = -d1.x /\ d2.y = -d1.y
        /\ across = 0
        /\ 2 * (IF along < 0 THEN -along ELSE along)
             = amount + 2 * snap.padding
        /\ centres > 0 => along > 0
        /\ centres < 0 => along < 0
        /\ snap.padding > 0 =>
             ~boxesOverlap(boundingBox(Cur, snap.n1),
                           boundingBox(Cur, snap.n2))


\* two different nodes whose boxes overlap, neither above the other
Overlapping(n, m) ==
  /\ n # m /\ ~Nested(n, m)
  /\ boxesOverlap(boundingBox(Cur, n), boundingBox(Cur, m))

\* C30: the overlap test and the resolver look only at nodes that are not
\* hidden and have no children. A call of hasOverlaps changes no position,
\* no element and no engine state, and returns true only when two such nodes
\* overlap (and then it does); a call of resolveOverlaps leaves the position
\* of every hidden node and of every compound node as it was, and changes
\* nothing but positions.
OverlapResolverScope ==
  [][/\ last'.op = "hasOverlaps" =>
          /\ UNCHANGED <<engine, graph>>
          /\ last'.ok <=>
                \E n, m \in Nodes :
                  /\ ~Hidden(n) /\ ~IsParent(n)
                  /\ ~Hidden(m) /\ ~IsParent(m)
                  /\ Overlapping(n, m)
     /\ last'.op = "resolveOverlaps" =>
          /\ \A n \in Nodes :
               (Hidden(n) \/ IsParent(n)) => position'[n] = position[n]
          /\ UNCHANGED <<engine, cyEdges, dataHidden>>]_vars

\* hasOverlaps has returned false while a hidden leaf lies over another leaf
HiddenOverlapNotSeen ==
  /\ last.op = "hasOverlaps" /\ ~last.ok
  /\ \E n, m \in Nodes :
       /\ Hidden(n) /\ ~IsParent(n) /\ ~IsParent(m)
       /\ Overlapping(n, m)


\* the layout l was given exactly the nodes not hidden when it was made and
\* the edges of the graph with both ends among them
GivenTheVisible(l) ==
  /\ Range(l.eles.nodes) = Nodes \ l.invocation.hidden
  /\ Range(l.eles.edges) =
       {e \in Range(l.invocation.cyEdges) :
          e.source \notin l.invocation.hidden
          /\ e.target \notin l.invocation.hidden}

\* C31: runLayout delegates and completes in order. Every global layout,
\* running or completed, was given exactly the nodes not hidden at the call
\* and the edges with both ends not hidden; the call itself moves nothing
\* and leaves its promise pending; a promise completes only on the step in
\* which its running layout stops, after the overlap resolution has run (at
\* least one pass, and no overlap left when it reports success).
RunLayoutDelegatesInOrder ==
  /\ [](/\ \A i \in 1..Len(layouts) : GivenTheVisible(layouts[i])
        /\ snap.phase = "runLayoutDone" => GivenTheVisible(snap))
  /\ [][/\ last'.op = "runLayout" =>
             /\ snap'.phase # "runLayoutDone"
             /\ Len(layouts') = Len(layouts) + 1
             /\ UNCHANGED <<engine, graph>>
        /\ snap'.phase = "runLayoutDone" =>
             /\ last'.op = "layoutstop"
             /\ \E i \in 1..Len(layouts) :
                  /\ layouts[i].eles = snap'.eles
                  /\ layouts' = RemoveAt(layouts, i)
             /\ last'.iterations >= 1
             /\ last'.ok => ~hasOverlaps(Cur')]_vars

\* a global layout made while nodes were hidden, and without an edge of the
\* graph that ended at one of them, has completed
HiddenLeftOutAndCompleted ==
  /\ snap.phase = "runLayoutDone"
  /\ snap.invocation.hidden # {}
  /\ Range(snap.eles.edges) # Range(snap.invocation.cyEdges)
  /\ last.op = "layoutstop"

====
